---- MODULE Spec2Model ----
(***************************************************************************)
(* A model of simpletable.py: the class SimpleTable, its constructor, the  *)
(* keyword parsing shared by the constructor and set(), the width          *)
(* computation, the rendering (__str__), the length query (__len__) and    *)
(* transpose().                                                            *)
(*                                                                         *)
(* Python values are records [t, s, n, items]:                             *)
(*   t = "none"            None                                            *)
(*   t = "str"             a string, s its characters                      *)
(*   t = "int"             an integer n                                    *)
(*   t = "list" / "tuple"  a list / tuple of the values in items           *)
(* Text is a sequence of one-character strings.                            *)
(***************************************************************************)
EXTENDS Integers, Sequences, FiniteSets, TLC

\* The fields of the instance (self.rows is never assigned after __init__
\* and is left out), then the observation of the latest call: which call it
\* was (with the keyword arguments of a set call), the value it returned and
\* the exception it raised ("none" if none).
\* twice is a history variable: the number n of transpose calls since the
\* latest other call (1 or 2, restarting after 2), and the header and
\* columns as they were before the first of them.  ncalls counts the calls
\* made on the instance since its construction.
VARIABLES title, header, columns, columnwidth, auto_columnwidth,
          call, ret, err, twice, ncalls

vars == <<title, header, columns, columnwidth, auto_columnwidth,
          call, ret, err, twice, ncalls>>

\* ---------------------------------------------------------------- values

None == [t |-> "none", s |-> <<>>, n |-> 0, items |-> <<>>]

PyStr(chars) == [t |-> "str", s |-> chars, n |-> 0, items |-> <<>>]

PyInt(k) == [t |-> "int", s |-> <<>>, n |-> k, items |-> <<>>]

PyList(xs) == [t |-> "list", s |-> <<>>, n |-> 0, items |-> xs]

PyTuple(xs) == [t |-> "tuple", s |-> <<>>, n |-> 0, items |-> xs]

\* the fill value of zip_longest(..., fillvalue="")
fillvalue == PyStr(<<>>)

\* the class attributes hor_char and ver_char
hor_char == "-"

ver_char == "|"

Max(a, b) == IF a > b THEN a ELSE b

RECURSIVE Repeat(_, _)
\* Python's  c * k  for a one-character string c (empty for k <= 0)
Repeat(c, k) == IF k <= 0 THEN <<>> ELSE <<c>> \o Repeat(c, k - 1)

RECURSIVE Digits(_)
\* the decimal digits of a natural number
Digits(k) ==
  LET d == <<"0", "1", "2", "3", "4", "5", "6", "7", "8", "9">>
  IN IF k < 10 THEN <<d[k + 1]>> ELSE Digits(k \div 10) \o <<d[(k % 10) + 1]>>

\* Python's str(item) for the items of the model
Str(v) ==
  CASE v.t = "str" -> v.s
    [] v.t = "int" -> IF v.n < 0 THEN <<"-">> \o Digits(0 - v.n) ELSE Digits(v.n)
    [] OTHER -> <<"N", "o", "n", "e">>

\* isinstance(v, (tuple, list, set))
IsSequence(v) == v.t \in {"list", "tuple"}

\* RJust, changed: the text is cut to its last cw characters
RJust_truncating(s, cw) ==
  IF Len(s) > cw THEN SubSeq(s, Len(s) - cw + 1, Len(s))
  ELSE Repeat(" ", cw - Len(s)) \o s

\* RJust, changed: the padding follows the text
RJust_left(s, cw) == s \o Repeat(" ", cw - Len(s))

\* f"{s:>{cw}s}" for a text s and an integer cw >= 0: no truncation
RJust(s, cw) == Repeat(" ", cw - Len(s)) \o s

\* f"{s:^{w}}": the left padding is half of the padding, rounded down
Center(s, w) ==
  LET pad == Max(w - Len(s), 0)
      left == pad \div 2
  IN Repeat(" ", left) \o s \o Repeat(" ", pad - left)

\* the format specification f">{cw}s" is valid only for an integer cw >= 0
ValidFormatWidth(cw) == cw.t = "int" /\ cw.n >= 0

RECURSIVE Concat(_)
\* the concatenation of a sequence of texts
Concat(ss) == IF ss = <<>> THEN <<>> ELSE Head(ss) \o Concat(Tail(ss))

\* the number of items of the longest of a sequence of columns
RECURSIVE MaxLen(_)
MaxLen(cols) ==
  IF cols = <<>> THEN 0 ELSE Max(Len(Head(cols).items), MaxLen(Tail(cols)))

\* list(zip_longest(*cols, fillvalue="")): a list of tuples
zip_longest(cols) ==
  [j \in 1..MaxLen(cols) |->
     PyTuple([i \in 1..Len(cols) |->
                IF j <= Len(cols[i].items) THEN cols[i].items[j] ELSE fillvalue])]

\* ------------------------------------------------ __parse_keyword_arguments

\* assign, changed: the header keyword also resets the title
assign_resetting(st, arg) ==
  CASE arg.name = "title" -> [st EXCEPT !.title = arg.value]
    [] arg.name = "header" -> [st EXCEPT !.header = arg.value, !.title = None]
    [] arg.name = "columnwidth" -> [st EXCEPT !.columnwidth = arg.value]
    [] OTHER -> st

\* the assignment a keyword makes: self.<name> = kwargs.get(<name>) for the
\* three recognised names, nothing for any other name
assign(st, arg) ==
  CASE arg.name = "title" -> [st EXCEPT !.title = arg.value]
    [] arg.name = "header" -> [st EXCEPT !.header = arg.value]
    [] arg.name = "columnwidth" -> [st EXCEPT !.columnwidth = arg.value]
    [] OTHER -> st

RECURSIVE parse_keyword_arguments(_, _)
\* st = [title, header, columnwidth, err]; kwargs = a sequence of
\* [name, value] in the order the keywords were passed.  Each recognised
\* option is assigned first and type-checked afterwards; the first failed
\* check raises TypeError and ends the loop.
parse_keyword_arguments(st, kwargs) ==
  IF kwargs = <<>> THEN st
  ELSE LET arg == Head(kwargs)
           rest == Tail(kwargs)
           st1 == assign(st, arg)
       IN CASE arg.name = "title" ->
                 IF st1.title.t # "str"
                   THEN [st1 EXCEPT !.err = "TypeError"]
                   ELSE parse_keyword_arguments(st1, rest)
            [] arg.name = "header" ->
                 IF ~IsSequence(st1.header)
                   THEN [st1 EXCEPT !.err = "TypeError"]
                   ELSE parse_keyword_arguments(st1, rest)
            [] arg.name = "columnwidth" ->
                 IF st1.columnwidth.t # "int"
                   THEN [st1 EXCEPT !.err = "TypeError"]
                   ELSE parse_keyword_arguments(st1, rest)
            [] OTHER -> parse_keyword_arguments(st1, rest)

\* ---------------------------------------------------- __automatic_columnwidth

RECURSIVE widest(_, _)
\* the loop  "if len(str(item)) > widest_item: widest_item = len(str(item))"
widest(xs, widest_item) ==
  IF xs = <<>> THEN widest_item
  ELSE widest(Tail(xs), Max(Len(Str(Head(xs))), widest_item))

RECURSIVE widest_columns(_, _)
widest_columns(cols, widest_item) ==
  IF cols = <<>> THEN widest_item
  ELSE widest_columns(Tail(cols), widest(Head(cols).items, widest_item))

\* the value assigned to self.auto_columnwidth, or TypeError when the
\* header is neither None nor iterable (then nothing is assigned)
automatic_columnwidth(hdr, cols) ==
  IF hdr.t # "none" /\ ~IsSequence(hdr)
    THEN [err |-> "TypeError", w |-> 0]
    ELSE [err |-> "none",
          w |-> widest_columns(cols, IF hdr.t = "none" THEN 0
                                     ELSE widest(hdr.items, 0))]

\* ------------------------------------------------------------ _get_table_width

RECURSIVE header_width_auto(_)
\* table_width_header += len(str(header_item)) + 1
header_width_auto(xs) ==
  IF xs = <<>> THEN 0 ELSE Len(Str(Head(xs))) + 1 + header_width_auto(Tail(xs))

\* table_width_columns, changed: the border character is not counted
table_width_columns_noborder(cols, cwv, auto_w) ==
  IF cols = <<>> THEN 0
  ELSE IF cwv.t = "none" THEN auto_w * Len(cols)
  ELSE cwv.n * Len(cols)

\* the width of the data rows: (width + 1) * len(self.columns)
table_width_columns(cols, cwv, auto_w) ==
  IF cols = <<>> THEN 0
  ELSE IF cwv.t = "none" THEN (auto_w + 1) * Len(cols)
  ELSE (cwv.n + 1) * Len(cols)

\* the table width for title ttl, header hdr, columns cols and
\* self.columnwidth cwv, or the TypeError the computation raises
get_table_width(ttl, hdr, cols, cwv) ==
  LET auto == automatic_columnwidth(hdr, cols)
      table_width_title == IF ttl.t = "none" THEN 0 ELSE Len(ttl.s) + 2
      table_width_header ==
        IF hdr.t = "none" THEN 0
        ELSE IF cwv.t = "none" THEN header_width_auto(hdr.items)
        ELSE (cwv.n + 1) * Len(hdr.items)
      width_columns == table_width_columns(cols, cwv, auto.w)
      table_width == IF table_width_header > width_columns
                       THEN table_width_header ELSE width_columns
      raises ==
        \/ ttl.t \notin {"none", "str"}                   \* len(self.title)
        \/ hdr.t # "none" /\ ~IsSequence(hdr)             \* for ... in self.header
        \/ /\ cwv.t \notin {"none", "int"}                \* self.columnwidth + 1
           /\ \/ hdr.t # "none" /\ hdr.items # <<>>
              \/ cols # <<>>
  IN IF raises THEN [err |-> "TypeError", w |-> 0]
     ELSE [err |-> "none",
           w |-> IF table_width_title > table_width
                   THEN table_width_title ELSE table_width]

\* -------------------------------------------------------------------- __str__

\* one rendered cell: f"{str(item):>{cw}s}{SimpleTable.ver_char}"
Cell(item, cw) == RJust(Str(item), cw) \o <<ver_char>>

\* one rendered line of cells, without its newline
CellLine(xs, cw) == Concat([i \in 1..Len(xs) |-> Cell(xs[i], cw)])

\* the text __str__ returns, given the resolved width cw (an integer value
\* whose format specification is valid wherever a cell is formatted) and
\* the table width
table_str(ttl, hdr, cols, cw, tablewidth) ==
  LET line_str == Repeat(hor_char, tablewidth) \o <<"\n">>
      title_str == IF ttl.t = "none" THEN <<>>
                   ELSE line_str \o Center(ttl.s, tablewidth - 1)
                          \o <<ver_char, "\n">>
      header_str == IF hdr.t = "none" THEN <<>>
                    ELSE line_str \o CellLine(hdr.items, cw) \o <<"\n">>
      rows == zip_longest(cols)
      rows_str == Concat([j \in 1..Len(rows) |->
                            CellLine(rows[j].items, cw) \o <<"\n">>])
  IN title_str \o header_str \o line_str \o rows_str \o line_str

\* resolved_width, changed: the width stored in self.auto_columnwidth by an
\* earlier call is used instead of a fresh one
resolved_width_stale(hdr, cols, cwv, old_auto) ==
  IF cwv.t = "none" THEN old_auto ELSE cwv

\* the local cw of __str__: self.auto_columnwidth, just recomputed, when
\* self.columnwidth is None, self.columnwidth otherwise
resolved_width(hdr, cols, cwv, old_auto) ==
  IF cwv.t = "none" THEN PyInt(automatic_columnwidth(hdr, cols).w) ELSE cwv

\* the whole of __str__: the value returned or the error raised, and the
\* value self.auto_columnwidth has afterwards
str_call(ttl, hdr, cols, cwv, old_auto) ==
  LET auto == automatic_columnwidth(hdr, cols)
      cw == resolved_width(hdr, cols, cwv, old_auto)
      tw == get_table_width(ttl, hdr, cols, cwv)
      \* some cell is formatted: a header item or an item of a row
      formats == \/ hdr.t # "none" /\ hdr.items # <<>>
                 \/ MaxLen(cols) > 0
  IN IF cwv.t = "none" /\ auto.err # "none"
       THEN [err |-> auto.err, ret |-> None, auto |-> old_auto]
     ELSE LET new_auto == IF cwv.t = "none" THEN PyInt(auto.w) ELSE old_auto
          IN IF tw.err # "none"
               THEN [err |-> tw.err, ret |-> None, auto |-> new_auto]
             ELSE IF formats /\ ~ValidFormatWidth(cw)
               THEN [err |-> "ValueError", ret |-> None, auto |-> new_auto]
             ELSE [err |-> "none", auto |-> new_auto,
                   ret |-> PyStr(table_str(ttl, hdr, cols, cw.n, tw.w))]

\* -------------------------------------------------------------------- __len__

RECURSIVE longest(_, _)
\* the loop  "if len(column) > max_len: max_len = len(column)"
longest(cols, max_len) ==
  IF cols = <<>> THEN max_len
  ELSE longest(Tail(cols), IF Len(Head(cols).items) > max_len
                             THEN Len(Head(cols).items) ELSE max_len)

\* len_call, changed: the header is not counted
len_call_noheader(hdr, cols) == longest(cols, 0)

\* the value __len__ returns
len_call(hdr, cols) ==
  IF hdr.t # "none" THEN longest(cols, 0) + 1 ELSE longest(cols, 0)

\* ------------------------------------------------------------------ transpose

RECURSIVE insert_header(_, _, _)
\* the loop over enumerate(self.header), from the 1-based position index on:
\* insert(0, item) into an existing column (AttributeError on a tuple, the
\* earlier insertions staying in place) or append a new one-item column
insert_header(cols, hdr_items, index) ==
  IF index > Len(hdr_items) THEN [err |-> "none", cols |-> cols]
  ELSE IF index <= Len(cols)
    THEN IF cols[index].t = "tuple"
           THEN [err |-> "AttributeError", cols |-> cols]
           ELSE insert_header(
                  [cols EXCEPT ![index] =
                     PyList(<<hdr_items[index]>> \o cols[index].items)],
                  hdr_items, index + 1)
    ELSE insert_header(Append(cols, PyList(<<hdr_items[index]>>)),
                       hdr_items, index + 1)

\* the whole of transpose(): the new header and columns, or the error
transpose_call(hdr, cols) ==
  IF hdr.t = "none"
    THEN [err |-> "none", header |-> hdr, columns |-> zip_longest(cols)]
  ELSE IF ~IsSequence(hdr)
    THEN [err |-> "TypeError", header |-> hdr, columns |-> cols]
  ELSE LET ins == insert_header(cols, hdr.items, 1)
           zipped == zip_longest(ins.cols)
       IN IF ins.err # "none"
            THEN [err |-> ins.err, header |-> hdr, columns |-> ins.cols]
            ELSE [err |-> "none",
                  header |-> PyList([j \in 1..Len(zipped) |-> zipped[j].items[1]]),
                  columns |-> [j \in 1..Len(zipped) |->
                                 PyList(Tail(zipped[j].items))]]

\* ------------------------------------------------------------------- __init__

RECURSIVE materialize(_)
\* the loop over the positional arguments: each iterable becomes an owned
\* list; a non-iterable argument raises TypeError
materialize(column_args) ==
  IF column_args = <<>> THEN [err |-> "none", cols |-> <<>>]
  ELSE LET column == Head(column_args)
           more == materialize(Tail(column_args))
       IN IF ~IsSequence(column) THEN [err |-> "TypeError", cols |-> <<>>]
          ELSE [err |-> more.err, cols |-> <<PyList(column.items)>> \o more.cols]

\* the whole of __init__: the fields of the new instance, or the error
init_call(column_args, kwargs) ==
  LET m == materialize(column_args)
      st == parse_keyword_arguments(
              [title |-> None, header |-> None, columnwidth |-> None,
               err |-> m.err], kwargs)
      auto == automatic_columnwidth(st.header, m.cols)
  IN [err |-> IF m.err # "none" THEN m.err ELSE st.err,
      title |-> st.title, header |-> st.header, columns |-> m.cols,
      columnwidth |-> st.columnwidth,
      auto_columnwidth |-> IF st.columnwidth.t = "none"
                             THEN PyInt(auto.w) ELSE None]

\* ------------------------------------------------------------------- inputs

\* the largest number of calls made on one instance
MaxCalls == 3

a == PyStr(<<"a">>)

bb == PyStr(<<"b", "b">>)

ccc == PyStr(<<"c", "c", "c">>)

X == PyStr(<<"X">>)

Y == PyStr(<<"Y">>)

\* the positional arguments of the constructor calls
ColumnArgs ==
  { <<>>,
    <<PyList(<<a, bb>>), PyList(<<ccc>>)>>,
    <<PyList(<<a, bb>>), PyTuple(<<ccc, PyInt(12)>>)>>,
    <<PyList(<<PyInt(1), PyInt(-2)>>)>>,
    <<PyList(<<>>), PyList(<<>>)>>,
    <<PyInt(5)>> }

\* the keyword arguments the calls choose from
KeywordArgs ==
  { [name |-> "title", value |-> PyStr(<<"H", "i">>)],
    [name |-> "title", value |-> PyInt(5)],
    [name |-> "header", value |-> PyList(<<X, Y>>)],
    [name |-> "header", value |-> PyList(<<>>)],
    [name |-> "header", value |-> PyInt(5)],
    [name |-> "columnwidth", value |-> PyInt(2)],
    [name |-> "columnwidth", value |-> PyInt(-1)],
    [name |-> "columnwidth", value |-> PyStr(<<"w", "i", "d", "e">>)],
    [name |-> "colour", value |-> PyInt(1)] }

Names(kwargs) == {kwargs[i].name : i \in 1..Len(kwargs)}

\* the keyword arguments of one call: none, one, or two with different
\* names (they form a dict), in the order they are passed
Kwargs ==
  {<<>>} \cup {<<x>> : x \in KeywordArgs}
         \cup {kw \in KeywordArgs \X KeywordArgs : kw[1].name # kw[2].name}

\* --------------------------------------------------------------- the machine

NoTranspose == [n |-> 0, header |-> None, columns |-> <<>>]

\* one more call is made
Called ==
  /\ ncalls < MaxCalls
  /\ ncalls' = ncalls + 1

Init ==
  \E column_args \in ColumnArgs, kwargs \in Kwargs :
    LET r == init_call(column_args, kwargs)
    IN /\ r.err = "none"
       /\ title = r.title
       /\ header = r.header
       /\ columns = r.columns
       /\ columnwidth = r.columnwidth
       /\ auto_columnwidth = r.auto_columnwidth
       /\ call = [op |-> "init", kwargs |-> <<>>]
       /\ ret = None
       /\ err = "none"
       /\ twice = NoTranspose
       /\ ncalls = 0

\* instance.set(**kwargs)
Set ==
  \E kwargs \in Kwargs :
    LET r == parse_keyword_arguments(
               [title |-> title, header |-> header,
                columnwidth |-> columnwidth, err |-> "none"], kwargs)
    IN /\ Called
       /\ title' = r.title
       /\ header' = r.header
       /\ columnwidth' = r.columnwidth
       /\ err' = r.err
       /\ ret' = None
       /\ call' = [op |-> "set", kwargs |-> kwargs]
       /\ twice' = NoTranspose
       /\ UNCHANGED <<columns, auto_columnwidth>>

\* a set call that raises nothing
SetOk ==
  /\ Set
  /\ err' = "none"

\* instance.transpose()
Transpose ==
  LET r == transpose_call(header, columns)
  IN /\ Called
     /\ header' = r.header
     /\ columns' = r.columns
     /\ err' = r.err
     /\ ret' = None
     /\ call' = [op |-> "transpose", kwargs |-> <<>>]
     /\ twice' = IF twice.n = 1 THEN [twice EXCEPT !.n = 2]
                 ELSE [n |-> 1, header |-> header, columns |-> columns]
     /\ UNCHANGED <<title, columnwidth, auto_columnwidth>>

\* str(instance)
StrCall ==
  LET r == str_call(title, header, columns, columnwidth, auto_columnwidth)
  IN /\ Called
     /\ auto_columnwidth' = r.auto
     /\ err' = r.err
     /\ ret' = r.ret
     /\ call' = [op |-> "str", kwargs |-> <<>>]
     /\ twice' = NoTranspose
     /\ UNCHANGED <<title, header, columns, columnwidth>>

\* len(instance)
LenCall ==
  /\ Called
  /\ ret' = PyInt(len_call(header, columns))
  /\ err' = "none"
  /\ call' = [op |-> "len", kwargs |-> <<>>]
  /\ twice' = NoTranspose
  /\ UNCHANGED <<title, header, columns, columnwidth, auto_columnwidth>>

Next == Set \/ Transpose \/ StrCall \/ LenCall

Spec == Init /\ [][Next]_vars

\* the instances changed by successful set calls only
NextOk == SetOk \/ Transpose \/ StrCall \/ LenCall

SpecOk == Init /\ [][NextOk]_vars

\* =================================================================== claims

Max2(S) == IF S = {} THEN 0 ELSE CHOOSE m \in S : \A k \in S : k <= m

RECURSIVE SplitAcc(_, _, _)
SplitAcc(text, sep, cur) ==
  IF text = <<>> THEN <<>>
  ELSE IF Head(text) = sep THEN <<cur>> \o SplitAcc(Tail(text), sep, <<>>)
  ELSE SplitAcc(Tail(text), sep, Append(cur, Head(text)))

\* the pieces of a text each of which is followed by sep
Split(text, sep) == SplitAcc(text, sep, <<>>)

\* every piece of the text is followed by sep
Terminated(text, sep) == text = <<>> \/ text[Len(text)] = sep

\* the latest call was str(instance) and it returned a text
Rendered == call.op = "str" /\ err = "none"

\* the lines of the text the latest call returned
OutLines == Split(ret.s, "\n")

\* positions in OutLines, for the title and header the instance has
TitleLines == IF title.t = "none" THEN 0 ELSE 2

HeaderLineAt == TitleLines + 2

FirstRowAt == TitleLines + (IF header.t = "none" THEN 0 ELSE 2) + 2

\* the number of data rows, and the item of row j in column i
NumRows == Max2({Len(columns[i].items) : i \in 1..Len(columns)})

RowItem(j, i) ==
  IF j <= Len(columns[i].items) THEN columns[i].items[j] ELSE PyStr(<<>>)

\* the rendered text has the lines of a table with NumRows data rows, and
\* every header cell and data cell satisfies CellOk(piece, item), where piece
\* is the cell's text before its border character
CellsAre(CellOk(_, _)) ==
  /\ Terminated(ret.s, "\n")
  /\ Len(OutLines) = FirstRowAt + NumRows
  /\ header.t # "none" =>
       LET cells == Split(OutLines[HeaderLineAt], ver_char)
       IN /\ Terminated(OutLines[HeaderLineAt], ver_char)
          /\ Len(cells) = Len(header.items)
          /\ \A i \in 1..Len(cells) : CellOk(cells[i], header.items[i])
  /\ \A j \in 1..NumRows :
       LET cells == Split(OutLines[FirstRowAt + j - 1], ver_char)
       IN /\ Terminated(OutLines[FirstRowAt + j - 1], ver_char)
          /\ Len(cells) = Len(columns)
          /\ \A i \in 1..Len(cells) : CellOk(cells[i], RowItem(j, i))

\* piece is text, right-justified in exactly w characters
RightJustified(piece, text, w) ==
  /\ Len(piece) = w
  /\ Len(text) <= w
  /\ \A k \in 1..w : piece[k] = IF k <= w - Len(text) THEN " "
                                ELSE text[k - (w - Len(text))]

\* ----------------------------------------------------------------------- C1
\* C1: on an instance built by a successful constructor call and changed
\* only by successful set calls and by transpose calls, neither str() nor
\* transpose() raises an error.  (Stated for the instances whose columnwidth
\* is unset or not negative: a negative columnwidth, which the constructor
\* and set accept, makes str() raise ValueError as well.)
C1_RenderAndTransposeNeverRaise ==
  (call.op \in {"str", "transpose"}
     /\ (columnwidth.t = "none" \/ columnwidth.n >= 0))
    => err = "none"

\* ----------------------------------------------------------------------- C2
Rectangular(cols) ==
  \A i, k \in 1..Len(cols) : Len(cols[i].items) = Len(cols[k].items)

\* C2: two transpose calls in a row on a header-less table whose columns all
\* have the same length leave the columns equal to the original ones (as
\* Python compares them in __eq__) and the header absent.
C2_TransposeTwiceRestores ==
  (twice.n = 2 /\ twice.header.t = "none" /\ Rectangular(twice.columns))
    => (columns = twice.columns /\ header.t = "none")

\* ----------------------------------------------------------------------- C3
\* C3 as stated: with columnwidth set to an integer W, every rendered header
\* cell and data cell has exactly W characters before its border character.
C3_EveryCellExactlyW ==
  (Rendered /\ columnwidth.t = "int")
    => CellsAre(LAMBDA piece, item : Len(piece) = columnwidth.n)

\* C3 amended: with columnwidth set to an integer W >= 0, every rendered
\* header cell and data cell is the stringified item right-justified in
\* max(W, its length) characters (not truncated), then one border character.
C3_EveryCellAtLeastW ==
  (Rendered /\ columnwidth.t = "int" /\ columnwidth.n >= 0)
    => CellsAre(LAMBDA piece, item :
                  RightJustified(piece, Str(item),
                                 Max(columnwidth.n, Len(Str(item)))))

\* a table with a header and with items both longer and shorter than its
\* columnwidth 2 has been rendered
C3_Witness ==
  /\ Rendered
  /\ columnwidth = PyInt(2)
  /\ header.t = "list" /\ header.items # <<>>
  /\ \E i \in 1..Len(columns) : \E j \in 1..Len(columns[i].items) :
       Len(Str(columns[i].items[j])) > 2
  /\ \E i \in 1..Len(columns) : \E j \in 1..Len(columns[i].items) :
       Len(Str(columns[i].items[j])) < 2

\* ----------------------------------------------------------------------- C4
\* C4: a set call that raises leaves title, header, columnwidth and columns
\* as they were.
C4_FailedSetChangesNothing ==
  [][(call'.op = "set" /\ err' # "none")
       => (title' = title /\ header' = header
           /\ columnwidth' = columnwidth /\ columns' = columns)]_vars

\* ----------------------------------------------------------------------- C5
\* C5: a successful set call changes none of title, header and columnwidth
\* that its keywords do not name and never the columns; the columns change
\* in transpose calls only.
C5_SetChangesOnlyNamedFields ==
  [][/\ (call'.op = "set" /\ err' = "none")
          => /\ "title" \notin Names(call'.kwargs) => title' = title
             /\ "header" \notin Names(call'.kwargs) => header' = header
             /\ "columnwidth" \notin Names(call'.kwargs)
                  => columnwidth' = columnwidth
             /\ columns' = columns
     /\ columns' # columns => call'.op = "transpose"]_vars

\* a successful set call naming only the title has been made on a table
\* that has a header, a columnwidth and columns
C5_Witness ==
  /\ call.op = "set" /\ err = "none"
  /\ Names(call.kwargs) = {"title"}
  /\ header.t = "list" /\ header.items # <<>>
  /\ columnwidth.t = "int"
  /\ columns # <<>>

\* ----------------------------------------------------------------------- C6
\* the longest stringified item of the current header and columns
CurrentWidest ==
  Max2({Len(Str(header.items[i])) : i \in 1..Len(header.items)}
       \cup UNION {{Len(Str(columns[i].items[j]))
                      : j \in 1..Len(columns[i].items)}
                   : i \in 1..Len(columns)})

\* C6: with columnwidth unset, every render right-justifies every header
\* cell and data cell to the longest stringified item of the header and
\* columns the table has at that render.
C6_AutoWidthIsCurrent ==
  (Rendered /\ columnwidth.t = "none")
    => CellsAre(LAMBDA piece, item :
                  RightJustified(piece, Str(item), CurrentWidest))

\* a table built with items of width 2, transposed and given a new header,
\* now of width 1, has been rendered
C6_Witness ==
  /\ Rendered
  /\ columnwidth.t = "none"
  /\ header = PyList(<<X, Y>>)
  /\ columns = <<PyList(<<Y>>), PyList(<<fillvalue>>), PyList(<<fillvalue>>)>>
  /\ auto_columnwidth = PyInt(1)

\* ----------------------------------------------------------------------- C7
ExampleRendered ==
  /\ Rendered
  /\ title.t = "none" /\ header.t = "none" /\ columnwidth.t = "none"
  /\ columns = <<PyList(<<a, bb>>), PyList(<<ccc>>)>>

Rule8 == <<"-", "-", "-", "-", "-", "-", "-", "-", "\n">>

\* C7 as stated: the example renders with automatic width 3, the data rows
\* "  a  |ccc|\n bb  |   |\n", between rule lines of width 8.
C7_ExampleAsStated ==
  ExampleRendered
    => /\ auto_columnwidth = PyInt(3)
       /\ ret.s = Rule8
                  \o <<" ", " ", "a", " ", " ", "|", "c", "c", "c", "|", "\n">>
                  \o <<" ", "b", "b", " ", " ", "|", " ", " ", " ", "|", "\n">>
                  \o Rule8

\* C7 amended: the example renders with automatic width 3, the data rows
\* "  a|ccc|\n bb|   |\n", between rule lines of width 8.
C7_ExampleAmended ==
  ExampleRendered
    => /\ auto_columnwidth = PyInt(3)
       /\ ret.s = Rule8
                  \o <<" ", " ", "a", "|", "c", "c", "c", "|", "\n">>
                  \o <<" ", "b", "b", "|", " ", " ", " ", "|", "\n">>
                  \o Rule8

\* the example has been rendered, in 4 lines
C7_Witness == ExampleRendered /\ Len(OutLines) = 4

\* ----------------------------------------------------------------------- C8
\* C8: len() returns the number of items of the longest column, plus one
\* when the header is not None.
C8_LengthQuery ==
  call.op = "len"
    => ret = PyInt(NumRows + IF header.t # "none" THEN 1 ELSE 0)

\* len() has been called on a table with an empty header and with rows
C8_Witness ==
  /\ call.op = "len"
  /\ header = PyList(<<>>)
  /\ NumRows >= 2
  /\ ret.n = NumRows + 1

\* ----------------------------------------------------------------------- C9
\* the enlarged column set E of a header and columns
Enlarged(hdr, cols) ==
  [i \in 1..Max(Len(hdr.items), Len(cols)) |->
     IF i > Len(cols) THEN <<hdr.items[i]>>
     ELSE IF i > Len(hdr.items) THEN cols[i].items
     ELSE <<hdr.items[i]>> \o cols[i].items]

ItemOr(xs, j) == IF j <= Len(xs) THEN xs[j] ELSE PyStr(<<>>)

\* header h2 and columns c2 are the transposition of the enlarged set E
TransposedFrom(E, h2, c2) ==
  /\ Len(c2) = Max2({Len(E[i]) : i \in 1..Len(E)})
  /\ Len(h2.items) = Len(c2)
  /\ \A j \in 1..Len(c2) :
       /\ h2.items[j] = ItemOr(E[1], j)
       /\ c2[j].items = [k \in 1..(Len(E) - 1) |-> ItemOr(E[k + 1], j)]

\* C9: every transpose call on a table with a header leaves the header and
\* the columns that are the transposition of the enlarged column set.
C9_TransposeWithHeader ==
  [][(call'.op = "transpose" /\ IsSequence(header))
       => TransposedFrom(Enlarged(header, columns), header', columns')]_vars

\* ---------------------------------------------------------------------- C10
\* the length of the rule line that ends every rendered text
RuleWidth == Len(OutLines[Len(OutLines)])

\* C10 as stated: with columnwidth unset, no rendered line is longer than
\* the rule lines.
C10_NoLineLongerThanRule ==
  (Rendered /\ columnwidth.t = "none")
    => \A k \in 1..Len(OutLines) : Len(OutLines[k]) <= RuleWidth

\* C10 amended: with columnwidth unset, no rendered line is longer than the
\* rule lines, except possibly the header line of a header with more items
\* than there are columns.
C10_NoLineLongerUnlessLongHeader ==
  (Rendered /\ columnwidth.t = "none")
    => \A k \in 1..Len(OutLines) :
         \/ Len(OutLines[k]) <= RuleWidth
         \/ /\ header.t # "none"
            /\ k = HeaderLineAt
            /\ Len(header.items) > Len(columns)

\* a table with a title, a header no longer than the column count and
\* ragged columns has been rendered with the automatic width
C10_Witness ==
  /\ Rendered
  /\ columnwidth.t = "none"
  /\ title.t = "str"
  /\ header.t = "list" /\ header.items # <<>>
  /\ Len(header.items) <= Len(columns)
  /\ ~Rectangular(columns)

====
